---- MODULE Spec2Model ----
(***************************************************************************)
(* SmartFlow backend: the HTTP handlers of main.py, the conversation       *)
(* orchestrator of agent.py and the five agent tools of tools.py, over the *)
(* tables of models.py.                                                    *)
(*                                                                         *)
(* Spec       the HTTP API: register, create_task, update_task,            *)
(*            get_task_plan, chat_message, generate_plan, with the agent   *)
(*            loop and the tools it calls.                                 *)
(* SpecTools  the tools called directly with arbitrary input strings.      *)
(* SpecTasks, SpecChat, SpecAgent, SpecInfo, SpecConn  parts of the API.   *)
(* SpecPlans, SpecRegister  two operations in flight at the same time.     *)
(***************************************************************************)
EXTENDS Integers, Sequences, FiniteSets, TLC

VARIABLES
    users,          \* table users: set of [id, email]
    tasks,          \* table tasks: function id -> [user_id, title, status, completed_at]
    plan_steps,     \* table plan_steps: per task, its rows in insertion order
    suggestions,    \* table suggestions: rows in insertion order
    activity_logs,  \* table activity_logs: rows in insertion order
    productivity_logs, \* table productivity_logs: set of [user_id, ts]
    req,            \* the HTTP request in flight and the handler's position
    agent,          \* the AgentExecutor run of process_chat
    tc,             \* the tool call in flight: the tool's position and its session
    peer,           \* a second request and a second tool call, in flight at the
                    \* same time as req and tc and not running at the moment
    ok_mutating,    \* history: number of mutating API calls answered 200
    last_plan       \* history: (task, steps) of the last committed insert_plan_steps

vars == <<users, tasks, plan_steps, suggestions, activity_logs, productivity_logs,
          req, agent, tc, peer, ok_mutating, last_plan>>

(***************************************************************************)
(* Bounds of the model.                                                    *)
(***************************************************************************)
MaxSteps == 2        \* steps in one insert_plan_steps payload
MaxPlanRows == 3     \* plan_steps rows of one task
MaxSuggestions == 1  \* suggestions rows
MaxRequests == 3     \* HTTP requests in one run
MaxLogs == 6         \* productivity_logs rows of one user

\* AgentExecutor(max_iterations=5)
max_iterations == 5

None == "None"

UserIds == {"u1", "u2", "u3"}
Emails == {"e1", "e2", "e3"}
TaskIds == {"t1", "t2"}
\* strings that uuid.UUID() accepts; "bad" is one it rejects
ValidUUIDs == UserIds \cup TaskIds
Statuses == {"pending", "in_progress", "completed", "cancelled"}
Orders == {0, 1}
Confidences == {85, 150}

(***************************************************************************)
(* Tool inputs: JSON texts, by what json.loads makes of them.              *)
(***************************************************************************)
\* a step of the payload: a dict that may lack "order" or "text"
StepDicts ==
    {[order |-> o, text |-> "a"] : o \in Orders}
        \cup {[order |-> 1], [text |-> "a"]}

StepLists == UNION {[1..n -> StepDicts] : n \in 0..MaxSteps}

NoSteps == <<>>

\* input strings of insert_plan_steps
PlanInputs ==
    {[type |-> "malformed", keys |-> {}, task_id |-> None, steps |-> NoSteps],
     [type |-> "int", keys |-> {}, task_id |-> None, steps |-> NoSteps],
     [type |-> "list", keys |-> {}, task_id |-> None, steps |-> NoSteps],
     [type |-> "list", keys |-> {"task_id", "steps"}, task_id |-> None, steps |-> NoSteps],
     [type |-> "dict", keys |-> {"steps"}, task_id |-> None, steps |-> NoSteps],
     [type |-> "dict", keys |-> {"task_id"}, task_id |-> "t1", steps |-> NoSteps]}
    \cup {[type |-> "dict", keys |-> {"task_id", "steps"}, task_id |-> t, steps |-> s] :
             t \in TaskIds \cup {"bad"}, s \in StepLists}

\* input strings of insert_suggestion; conf is {} when "confidence" is absent.
\* u3 is a UUID of no user and t2 a UUID of no task.
SuggestionPayload(u, t, c) ==
    [type |-> "dict", keys |-> {"user_id", "message"}, user_id |-> u, task_id |-> t, conf |-> c]

SuggestionInputs ==
    {[type |-> "malformed", keys |-> {}, user_id |-> None, task_id |-> None, conf |-> {}],
     [type |-> "int", keys |-> {}, user_id |-> None, task_id |-> None, conf |-> {}],
     [type |-> "list", keys |-> {"user_id", "message"}, user_id |-> None, task_id |-> None, conf |-> {}],
     [type |-> "dict", keys |-> {"user_id"}, user_id |-> "u1", task_id |-> None, conf |-> {}],
     SuggestionPayload("bad", None, {}), SuggestionPayload("u3", None, {85}),
     SuggestionPayload("u1", "bad", {}), SuggestionPayload("u1", "t2", {85}),
     SuggestionPayload("u1", "t1", {85}), SuggestionPayload("u1", None, {}),
     SuggestionPayload("u1", None, {85}), SuggestionPayload("u1", None, {150})}

\* json.loads raises JSONDecodeError on a malformed text
json_loads_ok(inp) == inp.type # "malformed"

\* `"k" not in payload`: a TypeError on an int / None payload, membership otherwise
in_raises(inp) == inp.type = "int"
has_keys(inp, ks) == ks \subseteq inp.keys

\* UUID(payload["k"]): payload["k"] raises TypeError on a list, UUID raises ValueError
uuid_ok(inp, v) == inp.type = "dict" /\ v \in ValidUUIDs

(***************************************************************************)
(* Tool results: a returned string (with or without an error indicator) or *)
(* an exception raised to the caller.                                      *)
(***************************************************************************)
NoResult == [kind |-> "none", error |-> FALSE, msg |-> "none", body |-> <<>>]
Str(m) == [kind |-> "str", error |-> FALSE, msg |-> m, body |-> <<>>]
ErrStr(m) == [kind |-> "str", error |-> TRUE, msg |-> m, body |-> <<>>]
Raised(m) == [kind |-> "raise", error |-> TRUE, msg |-> m, body |-> <<>>]

IdleCall ==
    [name |-> "none", pc |-> "idle", input |-> "none", task_id |-> None,
     user_id |-> None, steps |-> NoSteps, i |-> 0, pending |-> <<>>, old |-> <<>>,
     conn |-> 0, result |-> NoResult]

Returned(name, kind, task, res) ==
    [IdleCall EXCEPT !.name = name, !.pc = "done", !.input = kind,
                     !.task_id = task, !.result = res]

(***************************************************************************)
(* The SQLAlchemy session of a tool (autocommit=False, autoflush=False):   *)
(* rows added are pending until commit; rollback and close drop them.      *)
(***************************************************************************)
db_add(pending, row) == Append(pending, row)
db_commit(table, pending) == table \o pending
db_rollback(table, pending) == table
db_close_flushes(table, pending) == table \o pending
db_close(table, pending) == table

\* db.py 19-27, next(get_db()): the call now holds a session and its connection
get_db(call) == [call EXCEPT !.conn = @ + 1]

\* db.close() of a finally clause gives the connection back to the pool
session_close_leaks(call) == call
session_close(call) == [call EXCEPT !.conn = 0]

(***************************************************************************)
(* tools.py: the five tools.  A tool owns tc from its call to its return.  *)
(***************************************************************************)
api_idle == <<users, tasks, activity_logs, productivity_logs, req, ok_mutating>>

\* tools.py 41-50: the result read from the row (id and title stand for the
\* seven fields).  Line 45 reads task.due_at, and Task has no attribute due_at
\* (models.py 37 names the column due_date): building the result raises
\* AttributeError for every row.
task_info(task_id) == Raised("AttributeError")

\* tools.py 25-52.  The query runs under try/finally with no except clause.
get_task_info(task_id_str) ==
    /\ tc.pc = "idle"
    /\ \E db_ok \in BOOLEAN :
         tc' = IF task_id_str \notin ValidUUIDs
                 THEN Returned("get_task_info", "bad", None, ErrStr("task_id invalido"))
               ELSE IF ~db_ok
                 THEN session_close(get_db(
                          Returned("get_task_info", "uuid", None, Raised("OperationalError"))))
               ELSE IF task_id_str \notin DOMAIN tasks
                 THEN session_close(get_db(
                          Returned("get_task_info", "uuid", None, ErrStr("no existe"))))
               ELSE session_close(get_db(
                        Returned("get_task_info", "uuid", task_id_str, task_info(task_id_str))))
    /\ UNCHANGED <<peer, api_idle, plan_steps, suggestions, last_plan>>

\* .limit(5)
log_limit == 5

Min(a, b) == IF a < b THEN a ELSE b

\* .order_by(ProductivityLog.ts.desc())
RECURSIVE order_by_ts_desc(_)
order_by_ts_desc(S) ==
    IF S = {} THEN <<>>
    ELSE LET m == CHOOSE x \in S : \A y \in S : y.ts <= x.ts
         IN  <<m>> \o order_by_ts_desc(S \ {m})

\* the query without .filter(ProductivityLog.user_id == user_id)
recent_logs_unfiltered(user_id) ==
    LET rows == order_by_ts_desc(productivity_logs)
    IN  SubSeq(rows, 1, Min(log_limit, Len(rows)))

\* tools.py 74-80
recent_logs(user_id) ==
    LET rows == order_by_ts_desc({l \in productivity_logs : l.user_id = user_id})
    IN  SubSeq(rows, 1, Min(log_limit, Len(rows)))

\* tools.py 62-90.  The query runs under try/finally with no except clause.
get_recent_logs(user_id_str) ==
    /\ tc.pc = "idle"
    /\ \E db_ok \in BOOLEAN :
         tc' = IF user_id_str \notin ValidUUIDs
                 THEN Returned("get_recent_logs", "bad", None, ErrStr("user_id invalido"))
               ELSE IF ~db_ok
                 THEN session_close(get_db(
                          Returned("get_recent_logs", "uuid", None, Raised("OperationalError"))))
               ELSE session_close(get_db(
                        [Returned("get_recent_logs", "uuid", None,
                                  [Str("logs") EXCEPT !.body = recent_logs(user_id_str)])
                            EXCEPT !.user_id = user_id_str]))
    /\ UNCHANGED <<peer, api_idle, plan_steps, suggestions, last_plan>>

\* tools.py 112-125: parse and validate the payload, then open the session
insert_plan_steps_begin(inp) ==
    /\ tc.pc = "idle"
    /\ tc' = IF ~json_loads_ok(inp)
               THEN Returned("insert_plan_steps", inp.type, None, ErrStr("JSON invalido"))
             ELSE IF in_raises(inp)
               THEN Returned("insert_plan_steps", inp.type, None, Raised("TypeError"))
             ELSE IF ~has_keys(inp, {"task_id", "steps"})
               THEN Returned("insert_plan_steps", inp.type, None, ErrStr("falta task_id o steps"))
             ELSE IF ~uuid_ok(inp, inp.task_id)
               THEN Returned("insert_plan_steps", inp.type, None, ErrStr("task_id invalido"))
             ELSE get_db([IdleCall EXCEPT !.name = "insert_plan_steps", !.pc = "query",
                                   !.input = inp.type, !.task_id = inp.task_id,
                                   !.steps = inp.steps,
                                   !.old = IF inp.task_id \in TaskIds
                                             THEN plan_steps[inp.task_id] ELSE <<>>])
    /\ UNCHANGED <<peer, api_idle, plan_steps, suggestions, last_plan>>

\* tools.py 126-130: the task must exist (any owner)
insert_plan_steps_query ==
    /\ tc.name = "insert_plan_steps" /\ tc.pc = "query"
    /\ \E db_ok \in BOOLEAN :
         tc' = IF ~db_ok
                 THEN session_close([tc EXCEPT !.pc = "done", !.steps = NoSteps,
                                                !.result = ErrStr("Error al insertar")])
               ELSE IF tc.task_id \notin DOMAIN tasks
                 THEN session_close([tc EXCEPT !.pc = "done", !.steps = NoSteps,
                                                !.result = ErrStr("no existe tarea")])
               ELSE [tc EXCEPT !.pc = "loop", !.i = 1]
    /\ UNCHANGED <<peer, api_idle, plan_steps, suggestions, last_plan>>

\* step.get("order") is None or step.get("text") is None
step_incomplete(step) == ~({"order", "text"} \subseteq DOMAIN step)

\* tools.py 133-146, one step that has order and text: db.add(PlanStep(...))
insert_plan_steps_add ==
    /\ tc.name = "insert_plan_steps" /\ tc.pc = "loop"
    /\ tc.i <= Len(tc.steps)
    /\ ~step_incomplete(tc.steps[tc.i])
    /\ tc' = [tc EXCEPT !.i = @ + 1,
                        !.pending = db_add(@, [step_order |-> tc.steps[tc.i].order,
                                               text |-> tc.steps[tc.i].text,
                                               status |-> "pending"])]
    /\ UNCHANGED <<peer, api_idle, plan_steps, suggestions, last_plan>>

\* tools.py 136-137 and 153-154: a step lacks order or text: return, and the
\* finally clause closes the session
insert_plan_steps_reject ==
    /\ tc.name = "insert_plan_steps" /\ tc.pc = "loop"
    /\ tc.i <= Len(tc.steps)
    /\ step_incomplete(tc.steps[tc.i])
    /\ tc' = session_close([tc EXCEPT !.pc = "done", !.pending = <<>>, !.steps = NoSteps,
                                      !.result = ErrStr("cada step debe tener order y text")])
    /\ plan_steps' = [plan_steps EXCEPT ![tc.task_id] = db_close(@, tc.pending)]
    /\ UNCHANGED <<peer, api_idle, suggestions, last_plan>>

\* tools.py 148-149: db.commit()
insert_plan_steps_commit ==
    /\ tc.name = "insert_plan_steps" /\ tc.pc = "loop"
    /\ tc.i > Len(tc.steps)
    /\ tc' = session_close([tc EXCEPT !.pc = "done", !.pending = <<>>, !.steps = NoSteps,
                                      !.result = Str("Plan steps insertados")])
    /\ plan_steps' = [plan_steps EXCEPT ![tc.task_id] = db_commit(@, tc.pending)]
    /\ last_plan' = [task_id |-> tc.task_id, steps |-> tc.steps]
    /\ UNCHANGED <<peer, api_idle, suggestions>>

\* tools.py 150-152: the database raises while adding or committing: db.rollback()
insert_plan_steps_fail ==
    /\ tc.name = "insert_plan_steps" /\ tc.pc = "loop"
    /\ tc' = session_close([tc EXCEPT !.pc = "done", !.pending = <<>>, !.steps = NoSteps,
                                      !.result = ErrStr("Error al insertar plan_steps")])
    /\ plan_steps' = [plan_steps EXCEPT ![tc.task_id] = db_rollback(@, tc.pending)]
    /\ UNCHANGED <<peer, api_idle, suggestions, last_plan>>

\* foreign keys of suggestions: users.id and tasks.id (models.py 121-122)
suggestion_fk_ok(user_id, task_id) ==
    /\ user_id \in {u.id : u \in users}
    /\ task_id = None \/ task_id \in DOMAIN tasks

\* tools.py 164-215
insert_suggestion(inp) ==
    /\ tc.pc = "idle"
    /\ \E db_ok \in BOOLEAN :
         LET early ==
               IF ~json_loads_ok(inp) THEN ErrStr("JSON invalido")
               ELSE IF in_raises(inp) THEN Raised("TypeError")
               ELSE IF ~has_keys(inp, {"user_id", "message"}) THEN ErrStr("falta user_id o message")
               ELSE IF ~uuid_ok(inp, inp.user_id) THEN ErrStr("user_id invalido")
               ELSE IF inp.task_id # None /\ ~uuid_ok(inp, inp.task_id) THEN ErrStr("task_id invalido")
               ELSE NoResult
             row == [user_id |-> inp.user_id, task_id |-> inp.task_id,
                     confidence |-> inp.conf, is_applied |-> FALSE]
         IN  IF early # NoResult
               THEN /\ tc' = Returned("insert_suggestion", inp.type, None, early)
                    /\ UNCHANGED suggestions
             ELSE IF db_ok /\ suggestion_fk_ok(inp.user_id, inp.task_id)
               THEN /\ tc' = session_close(get_db(
                              Returned("insert_suggestion", inp.type, None,
                                       Str("Sugerencia insertada"))))
                    /\ suggestions' = db_commit(suggestions, db_add(<<>>, row))
             ELSE /\ tc' = session_close(get_db(
                            Returned("insert_suggestion", inp.type, None,
                                     ErrStr("Error al insertar sugerencia"))))
                  /\ suggestions' = db_rollback(suggestions, db_add(<<>>, row))
    /\ UNCHANGED <<peer, api_idle, plan_steps, last_plan>>

\* tools.py 228-242: the provider call runs under try/except Exception
llm_generate ==
    /\ tc.pc = "idle"
    /\ \E provider_ok \in BOOLEAN :
         tc' = IF provider_ok
                 THEN Returned("llm_generate", "prompt", None, Str("text"))
                 ELSE Returned("llm_generate", "prompt", None, ErrStr("Error en llm_generate"))
    /\ UNCHANGED <<peer, api_idle, plan_steps, suggestions, last_plan>>

\* the steps of a tool call in flight
ToolStep ==
    \/ insert_plan_steps_query
    \/ insert_plan_steps_add
    \/ insert_plan_steps_reject
    \/ insert_plan_steps_commit
    \/ insert_plan_steps_fail

(***************************************************************************)
(* SpecTools: each tool called directly, with every class of input string, *)
(* against a database that holds task t1 of user u1.                       *)
(***************************************************************************)
IdleReq ==
    [op |-> "none", pc |-> "idle", user |-> None, email |-> None, task_id |-> None,
     status |-> None, fields |-> FALSE, code |-> 0, n |-> 0, conn |-> 0]

IdleAgent == [pc |-> "idle", iterations |-> 0, output |-> NoResult, by |-> "none"]

NoPlan == [task_id |-> None, steps |-> NoSteps]

IdlePeer == [req |-> IdleReq, tc |-> IdleCall]

InitUsers == {[id |-> "u1", email |-> "e1"], [id |-> "u2", email |-> "e2"]}

\* u1 has more logs than the limit, u2 has one (the newest of all), u3 none
InitLogs ==
    {[user_id |-> "u1", ts |-> t] : t \in 1..MaxLogs}
        \cup {[user_id |-> "u2", ts |-> MaxLogs + 1]}

InitTools ==
    /\ users = InitUsers
    /\ tasks = [t \in {"t1"} |-> [user_id |-> "u1", title |-> "a", status |-> "pending",
                                  completed_at |-> None]]
    /\ plan_steps = [t \in TaskIds |-> <<>>]
    /\ suggestions = <<>>
    /\ activity_logs = <<>>
    /\ productivity_logs = InitLogs
    /\ req = IdleReq
    /\ agent = IdleAgent
    /\ tc = IdleCall
    /\ peer = IdlePeer
    /\ ok_mutating = 0
    /\ last_plan = NoPlan

\* the rows a payload would add still fit the model's bound on a task's rows
PlanFits(inp) ==
    inp.task_id \in DOMAIN tasks =>
        Len(plan_steps[inp.task_id]) + Len(inp.steps) <= MaxPlanRows

\* a direct call of a tool: no agent run is involved
Direct == agent.pc = "idle" /\ UNCHANGED agent

CallGetTaskInfo == Direct /\ \E s \in TaskIds \cup {"bad"} : get_task_info(s)

CallGetRecentLogs == Direct /\ \E s \in UserIds \cup {"bad"} : get_recent_logs(s)

CallInsertPlanSteps ==
    Direct /\ \E inp \in PlanInputs : PlanFits(inp) /\ insert_plan_steps_begin(inp)

CallInsertSuggestion ==
    /\ Direct
    /\ Len(suggestions) < MaxSuggestions
    /\ \E inp \in SuggestionInputs : insert_suggestion(inp)

CallLlmGenerate == Direct /\ llm_generate

RunTool == ToolStep /\ UNCHANGED agent

\* the caller takes the result
ToolReturn ==
    /\ Direct
    /\ tc.pc = "done"
    /\ tc' = IdleCall
    /\ UNCHANGED <<peer, api_idle, plan_steps, suggestions, last_plan>>

ToolsNext ==
    \/ CallGetTaskInfo
    \/ CallGetRecentLogs
    \/ CallInsertPlanSteps
    \/ CallInsertSuggestion
    \/ CallLlmGenerate
    \/ RunTool
    \/ ToolReturn

SpecTools == InitTools /\ [][ToolsNext]_vars

(***************************************************************************)
(* Claims about the tools, under SpecTools.                                *)
(***************************************************************************)

\* C1: every tool invocation, on every input and with a failing database or
\* provider, returns a string and never raises to its caller; a failure is a
\* string that carries an error indicator.
C1_ToolsNeverRaise ==
    tc.pc = "done" =>
        /\ tc.result.kind = "str"
        /\ (tc.result.msg \notin {"task", "logs", "text", "Plan steps insertados",
                                  "Sugerencia insertada"} => tc.result.error)

\* the rows insert_plan_steps makes of a list of complete steps
RECURSIVE plan_rows(_)
plan_rows(steps) ==
    IF steps = <<>> THEN <<>>
    ELSE <<[step_order |-> Head(steps).order, text |-> Head(steps).text,
            status |-> "pending"]>> \o plan_rows(Tail(steps))

\* C2: while insert_plan_steps is in flight, and after it has failed (a step
\* lacks order or text, or the database raises before commit), the persisted
\* steps of the task are exactly the old ones; after a success they are the
\* committed ones; a reader never sees a part of the new steps.
C2_FailedInsertLeavesOldSteps ==
    (tc.name = "insert_plan_steps" /\ tc.task_id \in TaskIds) =>
        IF tc.pc = "done" /\ ~tc.result.error
          THEN plan_steps[tc.task_id] = tc.old \o plan_rows(last_plan.steps)
          ELSE plan_steps[tc.task_id] = tc.old

\* C2 witness: a call failed after it had added a step, on a task that had steps
C2_Witness ==
    /\ tc.name = "insert_plan_steps" /\ tc.pc = "done" /\ tc.result.error
    /\ tc.i >= 2
    /\ Len(tc.old) >= 1
    /\ plan_steps[tc.task_id] = tc.old

\* C3: insert_plan_steps is idempotent: committing the same (task, steps) as
\* the last committed call leaves the task's persisted steps as they were.
C3_ReplaceIsIdempotent ==
    [][(/\ tc.name = "insert_plan_steps" /\ tc.pc = "loop"
        /\ tc'.pc = "done" /\ ~tc'.result.error
        /\ last_plan = [task_id |-> tc.task_id, steps |-> tc.steps])
       => plan_steps' = plan_steps]_vars

\* C8: the step orders of every task are positive and pairwise distinct.
C8_OrdersPositiveDistinct ==
    \A t \in TaskIds :
        \A i, j \in 1..Len(plan_steps[t]) :
            /\ plan_steps[t][i].step_order >= 1
            /\ i # j => plan_steps[t][i].step_order # plan_steps[t][j].step_order

\* C12: get_recent_logs of a user with n logs returns min(n, 5) entries, all
\* of them logs of that user, newest first, and no log of the user left out
\* is newer than one returned.
C12_RecentLogsNewestFive ==
    (tc.name = "get_recent_logs" /\ tc.pc = "done" /\ tc.result.kind = "str"
        /\ ~tc.result.error) =>
        LET out == tc.result.body
            mine == {l \in productivity_logs : l.user_id = tc.user_id}
            n == Cardinality(mine)
        IN  /\ Len(out) = IF n < 5 THEN n ELSE 5
            /\ \A i \in 1..Len(out) : out[i] \in mine
            /\ \A i, j \in 1..Len(out) : i < j => out[i].ts > out[j].ts
            /\ \A l \in mine :
                  (\A i \in 1..Len(out) : out[i] # l) =>
                      \A i \in 1..Len(out) : l.ts < out[i].ts

\* C12 witness: a user with more than 5 logs got exactly 5
C12_Witness ==
    /\ tc.name = "get_recent_logs" /\ tc.pc = "done" /\ ~tc.result.error
    /\ Cardinality({l \in productivity_logs : l.user_id = tc.user_id}) > 5
    /\ Len(tc.result.body) = 5

(***************************************************************************)
(* agent.py: process_chat runs the AgentExecutor built by create_agent     *)
(* (max_iterations=5, early_stopping_method="generate",                    *)
(* handle_parsing_errors=True) under try/except Exception.                 *)
(***************************************************************************)
tool_vars == <<plan_steps, suggestions, last_plan>>
api_vars == <<users, tasks, activity_logs, productivity_logs, ok_mutating>>

\* the executor's loop condition
agent_continues_off_by_one(iterations) == iterations <= max_iterations
agent_should_continue(iterations) == iterations < max_iterations

\* agent.py 137-157: process_chat builds the input and invokes the executor
process_chat(by) == [pc |-> "think", iterations |-> 0, output |-> NoResult, by |-> by]

\* the model answers: agent.py 159, return result["output"]
agent_finish ==
    /\ agent.pc = "think" /\ agent_should_continue(agent.iterations)
    /\ \E llm_ok \in BOOLEAN :
         agent' = [agent EXCEPT !.pc = "done",
                     !.output = IF llm_ok THEN Str("answer")
                                ELSE ErrStr("Lo siento, hubo un error")]
    /\ UNCHANGED <<api_vars, req, tc, tool_vars, peer>>

\* the model's reply does not parse: handle_parsing_errors=True feeds the error
\* back as the observation of this iteration
agent_parse_error ==
    /\ agent.pc = "think" /\ agent_should_continue(agent.iterations)
    /\ agent' = [agent EXCEPT !.iterations = @ + 1]
    /\ UNCHANGED <<api_vars, req, tc, tool_vars, peer>>

\* the input strings the model is taken to write for the writing tools: a
\* payload that is no object, a well-formed plan, a plan whose second step
\* lacks its order, and a suggestion with and without a valid user
AgentStepLists ==
    {<<[order |-> 1, text |-> "a"]>>, <<[order |-> 1, text |-> "a"], [text |-> "a"]>>}

AgentPlanInputs ==
    {inp \in PlanInputs :
        \/ inp.type = "int"
        \/ inp.type = "dict" /\ inp.keys = {"task_id", "steps"} /\ inp.steps \in AgentStepLists}

AgentSuggestionInputs ==
    {inp \in SuggestionInputs :
        \/ inp.type = "int"
        \/ /\ inp.type = "dict" /\ inp.keys = {"user_id", "message"}
           /\ inp.user_id \in {"u1", "bad"} /\ inp.task_id = None /\ inp.conf \in {{}, {85}}}

\* the model selects a tool and its input string
agent_call_tool ==
    /\ agent.pc = "think" /\ agent_should_continue(agent.iterations)
    /\ agent' = [agent EXCEPT !.pc = "tool"]
    /\ \/ \E s \in TaskIds \cup {"bad"} : get_task_info(s)
       \/ \E s \in {"u1", "u2", "bad"} : get_recent_logs(s)
       \/ \E inp \in AgentPlanInputs : PlanFits(inp) /\ insert_plan_steps_begin(inp)
       \/ /\ Len(suggestions) < MaxSuggestions
          /\ \E inp \in AgentSuggestionInputs : insert_suggestion(inp)
       \/ llm_generate

\* the tool runs inside the executor
agent_run_tool ==
    /\ agent.pc = "tool"
    /\ ToolStep
    /\ UNCHANGED agent

\* the tool's string is the observation; an exception of the tool leaves the
\* executor and is caught by process_chat (agent.py 161-162)
agent_observe ==
    /\ agent.pc = "tool" /\ tc.pc = "done"
    /\ agent' = IF tc.result.kind = "raise"
                  THEN [agent EXCEPT !.pc = "done",
                                     !.output = ErrStr("Lo siento, hubo un error")]
                  ELSE [agent EXCEPT !.pc = "think", !.iterations = @ + 1]
    /\ tc' = IdleCall
    /\ UNCHANGED <<api_vars, req, tool_vars, peer>>

\* the cap is reached without a final answer: the executor stops; with
\* early_stopping_method="generate" it asks the model for a last answer, or
\* rejects the method with a ValueError that process_chat catches
agent_stop ==
    /\ agent.pc = "think" /\ ~agent_should_continue(agent.iterations)
    /\ \E generated \in BOOLEAN :
         agent' = [agent EXCEPT !.pc = "done",
                     !.output = IF generated THEN Str("stopped")
                                ELSE ErrStr("Lo siento, hubo un error")]
    /\ UNCHANGED <<api_vars, req, tc, tool_vars, peer>>

AgentStep ==
    \/ agent_finish
    \/ agent_parse_error
    \/ agent_call_tool
    \/ agent_run_tool
    \/ agent_observe
    \/ agent_stop

(***************************************************************************)
(* main.py: the HTTP handlers.  Every conn.execute is a statement of its   *)
(* own (asyncpg autocommit: no handler opens a transaction).               *)
(***************************************************************************)
TaskIdInputs == TaskIds \cup {"bad"}

\* get_current_user: the token of a registered user
Authenticated == {u.id : u \in users}

CanStart ==
    /\ req.pc \in {"idle", "done"}
    /\ req.n < MaxRequests
    /\ agent.pc = "idle"
    /\ tc.pc = "idle"

NewReq(op, pc, user, task_id, status, fields) ==
    [op |-> op, pc |-> pc, user |-> user, email |-> None, task_id |-> task_id,
     status |-> status, fields |-> fields, code |-> 0, n |-> req.n + 1, conn |-> 0]

\* async with db_pool.acquire() as conn: the handler holds a pooled connection
\* inside the block and gives it back on every way out of it
pool_acquire(r) == [r EXCEPT !.conn = @ + 1]
pool_release(r) == [r EXCEPT !.conn = @ - 1]

\* the response: the request's body is dropped with the request
Respond(r, code) == [r EXCEPT !.pc = "done", !.code = code, !.status = None, !.fields = FALSE]

ActivityLog(user, task_id, action) ==
    [user_id |-> user, task_id |-> task_id, action |-> action]

\* main.py 111-115: SELECT id FROM users WHERE email = $1
register_select(email) ==
    /\ CanStart
    /\ LET r == pool_acquire([NewReq("register", "insert", None, None, None, FALSE)
                                 EXCEPT !.email = email])
       IN  req' = IF \E u \in users : u.email = email
                    THEN Respond(pool_release(r), 400) ELSE r
    /\ UNCHANGED <<api_vars, agent, tc, tool_vars, peer>>

\* main.py 118-133: INSERT INTO users; email is unique (models.py 14)
register_insert ==
    /\ req.op = "register" /\ req.pc = "insert"
    /\ \E db_ok \in BOOLEAN :
         IF db_ok /\ ~(\E u \in users : u.email = req.email)
           THEN /\ \E id \in UserIds \ Authenticated :
                     /\ users' = users \cup {[id |-> id, email |-> req.email]}
                     /\ req' = [Respond(pool_release(req), 200) EXCEPT !.user = id]
                /\ ok_mutating' = ok_mutating + 1
           ELSE /\ req' = Respond(pool_release(req), 500)
                /\ UNCHANGED <<users, ok_mutating>>
    /\ UNCHANGED <<tasks, activity_logs, productivity_logs, agent, tc, tool_vars, peer>>

\* main.py 180-188: INSERT INTO tasks; completed_at is not among the columns.
\* The request's title is "a".
create_task_insert(user, status) ==
    /\ CanStart
    /\ \E id \in TaskIds \ DOMAIN tasks, db_ok \in BOOLEAN :
         IF db_ok
           THEN /\ tasks' = tasks @@ (id :> [user_id |-> user, title |-> "a",
                                             status |-> status, completed_at |-> None])
                /\ req' = pool_acquire(NewReq("create_task", "log", user, id, status, FALSE))
           ELSE /\ req' = Respond(pool_release(pool_acquire(
                              NewReq("create_task", "log", user, None, status, FALSE))), 500)
                /\ UNCHANGED tasks
    /\ UNCHANGED <<users, activity_logs, productivity_logs, ok_mutating, agent, tc, tool_vars, peer>>

\* main.py 190-215: INSERT INTO activity_logs, then SELECT and answer
create_task_log ==
    /\ req.op = "create_task" /\ req.pc = "log"
    /\ \E db_ok \in BOOLEAN :
         IF db_ok
           THEN /\ activity_logs' = Append(activity_logs,
                                           ActivityLog(req.user, req.task_id, "task_created"))
                /\ req' = Respond(pool_release(req), 200)
                /\ ok_mutating' = ok_mutating + 1
           ELSE /\ req' = Respond(pool_release(req), 500)
                /\ UNCHANGED <<activity_logs, ok_mutating>>
    /\ UNCHANGED <<users, tasks, productivity_logs, agent, tc, tool_vars, peer>>

\* WHERE id = $1 AND user_id = $2
owned_by(task_id, user) == task_id \in DOMAIN tasks /\ tasks[task_id].user_id = user

\* main.py 224-270: UUID(task_id), the ownership SELECT, the list of updates
update_task_select(user, task_id, status, fields) ==
    /\ CanStart
    /\ LET r == pool_acquire(NewReq("update_task", "update", user, task_id, status, fields))
       IN  req' = IF task_id \notin ValidUUIDs THEN Respond(pool_release(r), 500)
                  ELSE IF ~owned_by(task_id, user) THEN Respond(pool_release(r), 404)
                  ELSE IF status = None /\ ~fields THEN Respond(pool_release(r), 200)
                  ELSE r
    /\ UNCHANGED <<api_vars, agent, tc, tool_vars, peer>>

\* main.py 254-263: status is written as given; completed_at is written when
\* the new status is "completed"
completed_at_on_any_status(old, status) == IF status # None THEN "ts" ELSE old
completed_at_update(old, status) == IF status = "completed" THEN "ts" ELSE old

\* main.py 271-275: UPDATE tasks SET ...  A request with fields carries the
\* new title "b" (main.py 239-242).
update_task_update ==
    /\ req.op = "update_task" /\ req.pc = "update"
    /\ \E db_ok \in BOOLEAN :
         IF db_ok
           THEN /\ tasks' = [tasks EXCEPT ![req.task_id] =
                               [@ EXCEPT !.title = IF req.fields THEN "b" ELSE @,
                                         !.status = IF req.status # None THEN req.status ELSE @,
                                         !.completed_at = completed_at_update(@, req.status)]]
                /\ req' = [req EXCEPT !.pc = "log"]
           ELSE /\ req' = Respond(pool_release(req), 500)
                /\ UNCHANGED tasks
    /\ UNCHANGED <<users, activity_logs, productivity_logs, ok_mutating, agent, tc, tool_vars, peer>>

\* main.py 277-302: INSERT INTO activity_logs, then SELECT and answer
update_task_log ==
    /\ req.op = "update_task" /\ req.pc = "log"
    /\ \E db_ok \in BOOLEAN :
         IF db_ok
           THEN /\ activity_logs' = Append(activity_logs,
                                           ActivityLog(req.user, req.task_id, "task_updated"))
                /\ req' = Respond(pool_release(req), 200)
                /\ ok_mutating' = ok_mutating + 1
           ELSE /\ req' = Respond(pool_release(req), 500)
                /\ UNCHANGED <<activity_logs, ok_mutating>>
    /\ UNCHANGED <<users, tasks, productivity_logs, agent, tc, tool_vars, peer>>

\* main.py 380-405
get_task_plan(user, task_id) ==
    /\ CanStart
    /\ LET r == pool_acquire(NewReq("get_task_plan", "select", user, task_id, None, FALSE))
       IN  req' = IF task_id \notin ValidUUIDs THEN Respond(pool_release(r), 500)
                  ELSE IF ~owned_by(task_id, user) THEN Respond(pool_release(r), 404)
                  ELSE Respond(pool_release(r), 200)
    /\ UNCHANGED <<api_vars, agent, tc, tool_vars, peer>>

\* main.py 315-322: process_chat is called first, with task_id as received
chat_message_begin(user, task_id) ==
    /\ CanStart
    /\ req' = NewReq("chat_message", "agent", user, task_id, None, FALSE)
    /\ agent' = process_chat("chat_message")
    /\ UNCHANGED <<api_vars, tc, tool_vars, peer>>

\* main.py 324-344: INSERT INTO activity_logs with UUID(request.task_id); every
\* exception becomes a 500.  activity_logs.task_id references tasks.id.
chat_message_log ==
    /\ req.op = "chat_message" /\ req.pc = "agent" /\ agent.pc = "done"
    /\ \E db_ok \in BOOLEAN :
         IF /\ db_ok
            /\ req.task_id = None \/ req.task_id \in DOMAIN tasks
           THEN /\ activity_logs' = Append(activity_logs,
                                           ActivityLog(req.user, req.task_id, "chat_interaction"))
                /\ req' = Respond(pool_release(pool_acquire(req)), 200)
                /\ ok_mutating' = ok_mutating + 1
           ELSE /\ req' = Respond(pool_release(pool_acquire(req)), 500)
                /\ UNCHANGED <<activity_logs, ok_mutating>>
    /\ agent' = IdleAgent
    /\ UNCHANGED <<users, tasks, productivity_logs, tc, tool_vars, peer>>

\* main.py 357-364: the ownership SELECT runs inside its own async with block,
\* which ends before generate_task_plan is called
generate_plan_check_holds(r) == pool_acquire(r)
generate_plan_check(r) == pool_release(pool_acquire(r))

\* main.py 355-367 and 375-376: the HTTPException(404) raised inside the try is
\* caught by `except Exception` and answered as 500; agent.py 166-184
generate_plan_begin(user, task_id) ==
    /\ CanStart
    /\ LET r == generate_plan_check(NewReq("generate_plan", "agent", user, task_id, None, FALSE))
       IN  IF task_id \in ValidUUIDs /\ owned_by(task_id, user)
             THEN /\ req' = r
                  /\ agent' = process_chat("generate_task_plan")
             ELSE /\ req' = Respond(r, 500)
                  /\ UNCHANGED agent
    /\ UNCHANGED <<api_vars, tc, tool_vars, peer>>

\* main.py 369-373: no activity log is written
generate_plan_return ==
    /\ req.op = "generate_plan" /\ req.pc = "agent" /\ agent.pc = "done"
    /\ req' = Respond(req, 200)
    /\ ok_mutating' = ok_mutating + 1
    /\ agent' = IdleAgent
    /\ UNCHANGED <<users, tasks, activity_logs, productivity_logs, tc, tool_vars, peer>>

Init ==
    /\ users = InitUsers
    /\ tasks = << >>
    /\ plan_steps = [t \in TaskIds |-> <<>>]
    /\ suggestions = <<>>
    /\ activity_logs = <<>>
    /\ productivity_logs = InitLogs
    /\ req = IdleReq
    /\ agent = IdleAgent
    /\ tc = IdleCall
    /\ peer = IdlePeer
    /\ ok_mutating = 0
    /\ last_plan = NoPlan

Register == \E email \in Emails : register_select(email)

CreateTask == \E user \in Authenticated, status \in Statuses : create_task_insert(user, status)

UpdateTask ==
    \E user \in Authenticated, task_id \in TaskIdInputs,
       status \in Statuses \cup {None}, fields \in BOOLEAN :
        update_task_select(user, task_id, status, fields)

GetTaskPlan == \E user \in Authenticated, task_id \in TaskIdInputs : get_task_plan(user, task_id)

ChatMessage ==
    \E user \in Authenticated, task_id \in TaskIdInputs \cup {None} :
        chat_message_begin(user, task_id)

GeneratePlan ==
    \E user \in Authenticated, task_id \in TaskIdInputs : generate_plan_begin(user, task_id)

\* SpecTasks: registration and the task handlers, from a database with two
\* registered users and no task
TasksNext ==
    \/ Register
    \/ register_insert
    \/ CreateTask
    \/ create_task_log
    \/ UpdateTask
    \/ update_task_update
    \/ update_task_log
    \/ GetTaskPlan

SpecTasks == Init /\ [][TasksNext]_vars

\* SpecChat: the two handlers that run the agent, from the database of
\* InitTools (task t1 of user u1; t2 names no task)
ChatNext ==
    \/ ChatMessage
    \/ chat_message_log
    \/ GeneratePlan
    \/ generate_plan_return
    \/ AgentStep

SpecChat == InitTools /\ [][ChatNext]_vars

\* SpecAgent: process_chat called directly, again and again, from the
\* database of InitTools.  The executor is a sequential program: a step of it
\* that can be taken is taken.
CallProcessChat ==
    /\ agent.pc = "idle" /\ tc.pc = "idle"
    /\ agent' = process_chat("direct")
    /\ UNCHANGED <<api_vars, req, tc, tool_vars, peer>>

ProcessChatReturn ==
    /\ agent.pc = "done" /\ agent.by = "direct"
    /\ agent' = IdleAgent
    /\ UNCHANGED <<api_vars, req, tc, tool_vars, peer>>

AgentNext ==
    \/ CallProcessChat
    \/ AgentStep
    \/ ProcessChatReturn

SpecAgent == InitTools /\ [][AgentNext]_vars /\ WF_vars(AgentStep)

\* SpecInfo: tasks are created and updated through the API while
\* get_task_info is called on them
InfoNext ==
    \/ CreateTask
    \/ create_task_log
    \/ UpdateTask
    \/ update_task_update
    \/ update_task_log
    \/ CallGetTaskInfo
    \/ ToolReturn

SpecInfo == Init /\ [][InfoNext]_vars

\* Two operations in flight at once.  The handlers are coroutines that yield
\* at every await of a statement, and no tool takes a lock: the operation
\* that runs changes places with the one that waits.
SwitchRequest ==
    /\ req # peer.req
    /\ req' = peer.req
    /\ peer' = [peer EXCEPT !.req = req]
    /\ UNCHANGED <<api_vars, agent, tc, tool_vars>>

SwitchTool ==
    /\ Direct
    /\ tc # peer.tc
    /\ tc' = peer.tc
    /\ peer' = [peer EXCEPT !.tc = tc]
    /\ UNCHANGED <<api_vars, req, tool_vars>>

\* SpecPlans: two insert_plan_steps calls, each made once, interleaved
CallRegeneratePlan ==
    /\ Direct
    /\ tc.name = "none"
    /\ \E inp \in AgentPlanInputs : PlanFits(inp) /\ insert_plan_steps_begin(inp)

PlansNext ==
    \/ CallRegeneratePlan
    \/ RunTool
    \/ SwitchTool

SpecPlans == InitTools /\ [][PlansNext]_vars

\* SpecRegister: two register requests at a time, interleaved
RegisterNext ==
    \/ Register
    \/ register_insert
    \/ SwitchRequest

SpecRegister == Init /\ [][RegisterNext]_vars

\* SpecConn: the chat turns and plan generations of user u1, on the task of
\* u1 and with a task_id that is no UUID, with the agent and its tools
OwnerChatMessage == \E task_id \in {"t1", "bad"} : chat_message_begin("u1", task_id)

OwnerGeneratePlan == \E task_id \in {"t1", "bad"} : generate_plan_begin("u1", task_id)

ConnNext ==
    \/ OwnerChatMessage
    \/ chat_message_log
    \/ OwnerGeneratePlan
    \/ generate_plan_return
    \/ AgentStep

SpecConn == InitTools /\ [][ConnNext]_vars

\* the whole API
Next == TasksNext \/ ChatNext

Spec == Init /\ [][Next]_vars

(***************************************************************************)
(* Claims about the handlers and the orchestrator.                         *)
(***************************************************************************)

\* the tool in flight has read or written the row of an existing task
ToolTouchedTask ==
    /\ tc.task_id \in DOMAIN tasks
    /\ \/ tc.name = "get_task_info" /\ tc.pc = "done"
       \/ tc.name = "insert_plan_steps" /\ tc.pc \in {"loop", "done"} /\ tc.i >= 1

\* C4: a task-scoped operation of an authenticated user touches a task only
\* after checking that the user owns it: the agent runs generate-plan only for
\* an owned task, and a tool the user's chat turn triggers reads or writes
\* only tasks of that user.
C4_OwnerCheckedBeforeAccess ==
    /\ (req.op = "generate_plan" /\ req.pc = "agent") => owned_by(req.task_id, req.user)
    /\ (agent.pc # "idle" /\ ToolTouchedTask) => tasks[tc.task_id].user_id = req.user

\* C5: after any sequence of calls the activity log holds one entry per
\* successful mutating call, and the entry of the call just answered carries
\* its user and task.
C5_OneLogPerMutatingCall ==
    req.pc \in {"idle", "done"} =>
        /\ Len(activity_logs) = ok_mutating
        /\ (req.code = 200 /\ req.op \in {"create_task", "chat_message"}) =>
              /\ activity_logs # <<>>
              /\ activity_logs[Len(activity_logs)].user_id = req.user
              /\ activity_logs[Len(activity_logs)].task_id = req.task_id

\* C6: a task write and its audit entry are persisted together or not at all:
\* once the request is over (answered or aborted), every persisted task has
\* its task_created entry.
C6_WriteAndAuditTogether ==
    req.pc \in {"idle", "done"} =>
        \A t \in DOMAIN tasks :
            \E i \in 1..Len(activity_logs) :
                /\ activity_logs[i].task_id = t
                /\ activity_logs[i].action = "task_created"

\* C7: process_chat performs at most max_iterations rounds of tool selection
\* and then returns a string, whatever the model and the tools do: every run
\* that starts ends.
C7_OrchestratorTerminates ==
    /\ [](agent.iterations <= max_iterations)
    /\ [](agent.pc = "done" => agent.output.kind = "str")
    /\ (agent.pc = "think") ~> (agent.pc = "done")

\* C7 witness: the cap was reached without a final answer and process_chat
\* returned the executor's stop response
C7_Witness ==
    /\ agent.pc = "done"
    /\ agent.iterations = max_iterations
    /\ agent.output = Str("stopped")

\* pending, then in_progress, then completed
status_rank(status) ==
    CASE status = "pending" -> 0
      [] status = "in_progress" -> 1
      [] status = "completed" -> 2
      [] OTHER -> 3

\* C9: no call moves a task's status backward, except a cancellation.
C9_StatusMonotonic ==
    [][\A t \in DOMAIN tasks :
          \/ tasks'[t].status = "cancelled"
          \/ tasks[t].status = "cancelled"
          \/ status_rank(tasks'[t].status) >= status_rank(tasks[t].status)]_vars

\* C10 as claimed: a task has a completed_at if and only if it is completed.
C10_CompletedAtIffCompleted ==
    \A t \in DOMAIN tasks :
        tasks[t].completed_at # None <=> tasks[t].status = "completed"

\* C10 as amended: completed_at is written only by an update-task call that
\* sets the status to completed; no other step gives a task a completed_at
\* or changes it.
C10_CompletedAtSetOnlyOnCompletion ==
    [][\A t \in DOMAIN tasks' :
          LET before == IF t \in DOMAIN tasks THEN tasks[t].completed_at ELSE None
          IN  tasks'[t].completed_at # before =>
                /\ req.op = "update_task" /\ req.status = "completed"
                /\ tasks'[t].status = "completed"]_vars

\* C10 witness: an update has completed a task and set its completed_at
C10_Witness ==
    /\ req.op = "update_task" /\ req.pc = "log" /\ req.status = "completed"
    /\ tasks[req.task_id].status = "completed"
    /\ tasks[req.task_id].completed_at # None

\* C11: for the id of an existing task, get_task_info returns a JSON object
\* whose fields equal the values create-task / update-task wrote last.
C11_TaskInfoRoundTrips ==
    (/\ tc.name = "get_task_info" /\ tc.pc = "done"
     /\ tc.task_id \in DOMAIN tasks) =>
        /\ tc.result.kind = "str" /\ ~tc.result.error
        /\ tc.result.body = <<tc.task_id, tasks[tc.task_id].title>>

\* C13: a task-scoped request whose task is absent for the authenticated user
\* (no such task, or a task of another user) is answered 404, and the
\* orchestrator does not run for it.
C13_AbsentTaskIs404 ==
    /\ (/\ req.pc = "done"
        /\ req.op \in {"update_task", "get_task_plan", "generate_plan"}
        /\ req.task_id \in ValidUUIDs
        /\ ~owned_by(req.task_id, req.user)) => req.code = 404
    /\ (req.op = "generate_plan" /\ req.pc = "agent") => owned_by(req.task_id, req.user)

\* C14: a request whose task_id is not a UUID is answered with a 4xx error,
\* and the orchestrator does not run for it.
C14_MalformedIdIs4xx ==
    (req.op \in {"update_task", "get_task_plan", "generate_plan", "chat_message"}
        /\ req.task_id \notin ValidUUIDs \cup {None}) =>
        /\ req.pc = "done" => req.code \in 400..499
        /\ agent.pc = "idle"

\* C15: every persisted suggestion has no confidence or a confidence within
\* [0, 1] (confidences are held in hundredths: 85 is 0.85).
C15_ConfidenceInRange ==
    \A i \in 1..Len(suggestions) :
        \A c \in suggestions[i].confidence : 0 <= c /\ c <= 100

\* C16: two insert_plan_steps calls on one task, in flight at the same time,
\* are serialized: when the second of them commits, the task's persisted
\* steps are exactly the steps of one of the two calls.
C16_ConcurrentRegenerationsSerialized ==
    [][(/\ tc.name = "insert_plan_steps" /\ tc.pc = "loop"
        /\ tc'.pc = "done" /\ ~tc'.result.error
        /\ peer' = peer
        /\ peer.tc.name = "insert_plan_steps" /\ peer.tc.pc = "done"
        /\ ~peer.tc.result.error
        /\ peer.tc.task_id = tc.task_id)
       => plan_steps'[tc.task_id] \in {plan_rows(tc.steps), plan_rows(last_plan.steps)}]_vars

\* C17: emails stay unique under concurrent registration, and a register
\* request that reaches its INSERT after the other request has taken the
\* email is answered 400.
C17_ConcurrentRegisterRejected ==
    [][/\ \A u, v \in users' : u.email = v.email => u = v
       /\ (/\ req.op = "register" /\ req.pc = "insert" /\ req'.pc = "done"
           /\ peer' = peer
           /\ \E u \in users : u.email = req.email) => req'.code = 400]_vars

\* C18: every connection or session a handler or a tool acquires is given
\* back on every way out: an operation that has not started or has finished
\* holds no connection.
C18_ConnectionsReleased ==
    /\ req.pc \in {"idle", "done"} => req.conn = 0
    /\ tc.pc \in {"idle", "done"} => tc.conn = 0

\* C18 witness: inside a request, a tool that had opened its session and added
\* a step left by its error return, holding nothing
C18_Witness ==
    /\ req.pc = "agent"
    /\ tc.name = "insert_plan_steps" /\ tc.pc = "done" /\ tc.result.error
    /\ tc.i >= 2
    /\ tc.conn = 0

\* C19: while a call to the completion provider is in flight (the executor
\* waits for the model, or llm_generate has just run), the handler that
\* started the chat turn and the tool hold no connection.
C19_NoConnectionDuringProviderCall ==
    (agent.pc = "think" \/ (tc.name = "llm_generate" /\ tc.pc = "done")) =>
        /\ req.conn = 0
        /\ tc.conn = 0

\* C19 witness: generate_plan has made its ownership check and the executor
\* waits for the model after a tool has run
C19_Witness ==
    /\ req.op = "generate_plan" /\ req.pc = "agent"
    /\ agent.pc = "think" /\ agent.iterations >= 1
    /\ req.conn = 0

====
